---- MODULE Spec2Model ----
(***************************************************************************)
(* State-machine model of cache-lib: InMemoryCache (src/cache.py), its     *)
(* entries CacheItem (src/models.py) and the eviction policies LRU, LFU    *)
(* and FIFO (src/concepts/).                                               *)
(*                                                                         *)
(* A Python dict is modelled as the sequence of its items in iteration     *)
(* (insertion) order; an OrderedDict of key -> True as the sequence of its *)
(* keys.  time.time() is the integer clock `now`.                          *)
(***************************************************************************)
EXTENDS Integers, Sequences, FiniteSets, TLC

\* ------------------------------------------------------------------ bounds
MaxCap  == 2      \* largest max_size a cache is built with
MaxOps  == 3      \* number of cache calls in one run
MaxTime == 2      \* last instant of the clock
NThreads == 2     \* threads that call the cache concurrently
MaxCalls == 2     \* number of calls the threads make in one run

\* ------------------------------------------------------------------ inputs
\* Key values handed to the API.  The first three are Python str values (the
\* empty string included); "int:5" stands for a hashable value that is not a
\* str, "list:[]" for an unhashable one.
StrKeys    == {"", "a", "b"}
NonStrKeys == {"int:5", "list:[]"}
AllKeys    == StrKeys \cup NonStrKeys
Values     == {1, 2}
Strategies == {"lru", "lfu", "fifo"}

isinstance_str(key) == key \in StrKeys
hashable(key)       == key # "list:[]"
\* Python truth value of a str: the empty string is false
truthy(key)         == key # ""

\* ttl argument of put: None, or a number
TtlNone    == [some |-> FALSE, v |-> 0]
Ttl(n)     == [some |-> TRUE, v |-> n]
GoodTtls   == {TtlNone, Ttl(1)}
BadTtls    == {Ttl(0), Ttl(0 - 1)}

\* ------------------------------------------------------------ results
\* kind says what the call produced; v is the number (a bool as 0/1), obj
\* the list or dict returned by keys() / stats()
RetNone        == [kind |-> "None", v |-> 0, obj |-> <<>>]
RetVal(x)      == [kind |-> "value", v |-> x, obj |-> <<>>]
RetBool(b)     == [kind |-> "bool", v |-> IF b THEN 1 ELSE 0, obj |-> <<>>]
RetInt(n)      == [kind |-> "int", v |-> n, obj |-> <<>>]
RetList(l)     == [kind |-> "list", v |-> 0, obj |-> l]
RetDict(r)     == [kind |-> "dict", v |-> 0, obj |-> <<r>>]
RetTypeError   == [kind |-> "TypeError", v |-> 0, obj |-> <<>>]
RetValueError  == [kind |-> "ValueError", v |-> 0, obj |-> <<>>]

\* ------------------------------------------------------------ sequences
Range(s)       == {s[i] : i \in 1..Len(s)}
SeqRemove(s, x) == SelectSeq(s, LAMBDA y : y # x)
\* OrderedDict.pop(key, None); od[key] = True  /  od[key] = True on a new key
MoveToEnd(s, x) == Append(SeqRemove(s, x), x)
\* od[key] = True: a key already there keeps its place
SetKey(s, x)    == IF x \in Range(s) THEN s ELSE Append(s, x)

\* ------------------------------------------------------------ dict of items
DictKeys(d)    == [i \in 1..Len(d) |-> d[i].key]
KeySet(d)      == {d[i].key : i \in 1..Len(d)}
DictHas(d, k)  == k \in KeySet(d)
DictIdx(d, k)  == CHOOSE i \in 1..Len(d) : d[i].key = k
DictGet(d, k)  == d[DictIdx(d, k)]
\* d[k] = item: an existing key keeps its position, a new key goes last
DictSet(d, k, item) ==
    IF DictHas(d, k) THEN [d EXCEPT ![DictIdx(d, k)] = item]
    ELSE Append(d, item)
DictDel(d, k)  == SelectSeq(d, LAMBDA it : it.key # k)

\* ------------------------------------------------------------ CacheItem
CacheItem(key, value, created_at, ttl, last_accessed) ==
    [key |-> key, value |-> value, created_at |-> created_at, ttl |-> ttl,
     access_count |-> 0, last_accessed |-> last_accessed]

is_expired(item, t) ==
    IF ~item.ttl.some THEN FALSE
    ELSE t > item.created_at + item.ttl.v

\* touch that does not count the access
touch_no_count(item, t) == [item EXCEPT !.last_accessed = t]

\* touch that restarts the entry's lifetime
touch_slides(item, t) ==
    [item EXCEPT !.access_count = @ + 1, !.last_accessed = t, !.created_at = t]

touch(item, t) ==
    [item EXCEPT !.access_count = @ + 1, !.last_accessed = t]

\* ------------------------------------------------------------ policies
\* should_evict gives [raised |-> TRUE] for StopIteration / KeyError
Raised     == [raised |-> TRUE, key |-> ""]
Victim(k)  == [raised |-> FALSE, key |-> k]

LRU_should_evict(access_order_) ==
    IF access_order_ = <<>> THEN Raised ELSE Victim(Head(access_order_))

LRU_on_access(access_order_, key) == MoveToEnd(access_order_, key)

FIFO_should_evict(insertion_order_) ==
    IF insertion_order_ = <<>> THEN Raised ELSE Victim(Head(insertion_order_))

FIFO_on_insert(insertion_order_, key) == SetKey(insertion_order_, key)

\* min(cache_data.keys(), key=access_count): the first key, in iteration
\* order, whose count is minimal
LFU_should_evict(d) ==
    LET i == CHOOSE i \in 1..Len(d) :
                 /\ \A j \in 1..Len(d) : d[i].access_count <= d[j].access_count
                 /\ \A j \in 1..(i - 1) : d[j].access_count > d[i].access_count
    IN Victim(d[i].key)

has_access_order(strategy_)    == strategy_ = "lru"
has_insertion_order(strategy_) == strategy_ = "fifo"
has_on_insert(strategy_)       == strategy_ = "fifo"

should_evict(c) ==
    CASE c.strategy = "lru"  -> LRU_should_evict(c.access_order)
      [] c.strategy = "fifo" -> FIFO_should_evict(c.insertion_order)
      [] c.strategy = "lfu"  -> LFU_should_evict(c.data)

on_access(c, key) ==
    IF c.strategy = "lru"
    THEN [c EXCEPT !.access_order = LRU_on_access(@, key)]
    ELSE c

on_insert(c, key) ==
    IF has_on_insert(c.strategy)
    THEN [c EXCEPT !.insertion_order = FIFO_on_insert(@, key)]
    ELSE c

\* ------------------------------------------------------------ InMemoryCache
NewCache(max_size_, strategy_) ==
    [max_size |-> max_size_, strategy |-> strategy_, data |-> <<>>,
     access_order |-> <<>>, insertion_order |-> <<>>,
     stats |-> [hits |-> 0, misses |-> 0, evictions |-> 0, expired |-> 0]]

\* removal that never tells the policy
cleanup_strategy_on_delete_noop(c, key) == c

cleanup_strategy_on_delete(c, key) ==
    [c EXCEPT !.access_order =
                  IF has_access_order(c.strategy) THEN SeqRemove(@, key) ELSE @,
              !.insertion_order =
                  IF has_insertion_order(c.strategy) THEN SeqRemove(@, key) ELSE @]

reset_strategy(c) ==
    [c EXCEPT !.access_order = <<>>, !.insertion_order = <<>>]

\* del self._data[k]; self._cleanup_strategy_on_delete(k)
RemoveKey(c, k) ==
    cleanup_strategy_on_delete([c EXCEPT !.data = DictDel(@, k)], k)

Evicted(c, k) ==
    [RemoveKey(c, k) EXCEPT !.stats.evictions = @ + 1]

\* `if key_to_evict and key_to_evict in self._data`
accept_victim(c, k) == truthy(k) /\ DictHas(c.data, k)

evict_one(c) ==
    IF c.data = <<>> THEN c
    ELSE LET r == should_evict(c)
         IN IF r.raised
            THEN Evicted(c, c.data[1].key)
            ELSE IF accept_victim(c, r.key) THEN Evicted(c, r.key) ELSE c

\* get whose expiry branch forgets the policy cleanup
get_no_cleanup(c, key, t) ==
    IF ~hashable(key) THEN [c |-> c, ret |-> RetTypeError]
    ELSE IF ~DictHas(c.data, key)
    THEN [c |-> [c EXCEPT !.stats.misses = @ + 1], ret |-> RetNone]
    ELSE LET item == DictGet(c.data, key)
         IN IF is_expired(item, t)
            THEN [c |-> [c EXCEPT !.data = DictDel(@, key),
                                  !.stats.expired = @ + 1,
                                  !.stats.misses = @ + 1],
                  ret |-> RetNone]
            ELSE [c |-> [on_access([c EXCEPT !.data =
                                       DictSet(@, key, touch(item, t))], key)
                            EXCEPT !.stats.hits = @ + 1],
                  ret |-> RetVal(item.value)]

\* get that counts an expired read as expired but not as a miss
get_expired_uncounted(c, key, t) ==
    IF ~hashable(key) THEN [c |-> c, ret |-> RetTypeError]
    ELSE IF ~DictHas(c.data, key)
    THEN [c |-> [c EXCEPT !.stats.misses = @ + 1], ret |-> RetNone]
    ELSE LET item == DictGet(c.data, key)
         IN IF is_expired(item, t)
            THEN [c |-> [RemoveKey(c, key) EXCEPT !.stats.expired = @ + 1],
                  ret |-> RetNone]
            ELSE [c |-> [on_access([c EXCEPT !.data =
                                       DictSet(@, key, touch(item, t))], key)
                            EXCEPT !.stats.hits = @ + 1],
                  ret |-> RetVal(item.value)]

get(c, key, t) ==
    IF ~hashable(key) THEN [c |-> c, ret |-> RetTypeError]
    ELSE IF ~DictHas(c.data, key)
    THEN [c |-> [c EXCEPT !.stats.misses = @ + 1], ret |-> RetNone]
    ELSE LET item == DictGet(c.data, key)
         IN IF is_expired(item, t)
            THEN [c |-> [RemoveKey(c, key) EXCEPT !.stats.expired = @ + 1,
                                                  !.stats.misses = @ + 1],
                  ret |-> RetNone]
            ELSE [c |-> [on_access([c EXCEPT !.data =
                                       DictSet(@, key, touch(item, t))], key)
                            EXCEPT !.stats.hits = @ + 1],
                  ret |-> RetVal(item.value)]

put_validate(key, ttl) ==
    IF ~isinstance_str(key) THEN RetTypeError
    ELSE IF ttl.some /\ ttl.v <= 0 THEN RetValueError
    ELSE RetNone

\* put without the early return for a key that is already stored
put_locked_no_overwrite_branch(c, key, value, ttl, t) ==
    LET item == CacheItem(key, value, t, ttl, t)
        c1 == IF Len(c.data) >= c.max_size THEN evict_one(c) ELSE c
        c2 == [c1 EXCEPT !.data = DictSet(@, key, item)]
    IN on_insert(on_access(c2, key), key)

put_locked(c, key, value, ttl, t) ==
    LET item == CacheItem(key, value, t, ttl, t)
    IN IF DictHas(c.data, key)
       THEN on_access([c EXCEPT !.data = DictSet(@, key, item)], key)
       ELSE LET c1 == IF Len(c.data) >= c.max_size THEN evict_one(c) ELSE c
                c2 == [c1 EXCEPT !.data = DictSet(@, key, item)]
            IN on_insert(on_access(c2, key), key)

\* put that checks the ttl only after it has stored the entry
put_validate_late(c, key, value, ttl, t) ==
    IF ~isinstance_str(key) THEN [c |-> c, ret |-> RetTypeError]
    ELSE [c |-> put_locked(c, key, value, ttl, t),
          ret |-> put_validate(key, ttl)]

put(c, key, value, ttl, t) ==
    LET v == put_validate(key, ttl)
    IN IF v # RetNone THEN [c |-> c, ret |-> v]
       ELSE [c |-> put_locked(c, key, value, ttl, t), ret |-> RetNone]

\* delete without the isinstance check
delete_no_typecheck(c, key) ==
    IF DictHas(c.data, key)
    THEN [c |-> RemoveKey(c, key), ret |-> RetBool(TRUE)]
    ELSE [c |-> c, ret |-> RetBool(FALSE)]

\* delete that leaves the key in the policy's ordering
delete_no_cleanup(c, key) ==
    IF ~isinstance_str(key) THEN [c |-> c, ret |-> RetTypeError]
    ELSE IF DictHas(c.data, key)
    THEN [c |-> [c EXCEPT !.data = DictDel(@, key)], ret |-> RetBool(TRUE)]
    ELSE [c |-> c, ret |-> RetBool(FALSE)]

delete(c, key) ==
    IF ~isinstance_str(key) THEN [c |-> c, ret |-> RetTypeError]
    ELSE IF DictHas(c.data, key)
    THEN [c |-> RemoveKey(c, key), ret |-> RetBool(TRUE)]
    ELSE [c |-> c, ret |-> RetBool(FALSE)]

\* clear that empties the mapping and leaves the policy's ordering alone
clear_keeps_order(c) ==
    [c |-> [c EXCEPT !.data = <<>>], ret |-> RetNone]

clear(c) ==
    [c |-> reset_strategy([c EXCEPT !.data = <<>>]), ret |-> RetNone]

size(c) == [c |-> c, ret |-> RetInt(Len(c.data))]

keys(c) == [c |-> c, ret |-> RetList(DictKeys(c.data))]

\* round(hits / total, 3) in thousandths; with the totals reached here
\* 1000 * hits / total never falls on a half, so the rounding mode is moot
hit_rate(hits, total) ==
    IF total > 0 THEN (2000 * hits + total) \div (2 * total) ELSE 0

stats_(c) ==
    LET total == c.stats.hits + c.stats.misses
    IN [c |-> c,
        ret |-> RetDict([hits |-> c.stats.hits, misses |-> c.stats.misses,
                         evictions |-> c.stats.evictions,
                         expired |-> c.stats.expired,
                         total_requests |-> total,
                         hit_rate |-> hit_rate(c.stats.hits, total),
                         current_size |-> Len(c.data)])]

expired_keys(c, t) ==
    DictKeys(SelectSeq(c.data, LAMBDA it : is_expired(it, t)))

RECURSIVE purge(_, _)
purge(c, ks) ==
    IF ks = <<>> THEN c
    ELSE purge([RemoveKey(c, Head(ks)) EXCEPT !.stats.expired = @ + 1], Tail(ks))

\* sweep that removes the expired entries from the mapping only
cleanup_expired_data_only(c, t) ==
    LET ks == expired_keys(c, t)
    IN [c |-> [c EXCEPT !.data = SelectSeq(@, LAMBDA it : ~is_expired(it, t)),
                        !.stats.expired = @ + Len(ks)],
        ret |-> RetInt(Len(ks))]

cleanup_expired(c, t) ==
    LET ks == expired_keys(c, t)
    IN [c |-> purge(c, ks), ret |-> RetInt(Len(ks))]

\* ------------------------------------------------------------------ state
VARIABLES
    max_size,          \* self._max_size
    strategy,          \* class of self._strategy
    data,              \* self._data
    access_order,      \* self._strategy.access_order (LRU)
    insertion_order,   \* self._strategy.insertion_order (FIFO)
    stats,             \* self._stats
    now,               \* time.time()
    call,              \* the call made by the last step
    ret,               \* what that call returned or raised
    nops,              \* number of calls made so far
    touchSeq,          \* history: per key, index of the call that last touched it
    insSeq,            \* history: per key, index of the call that inserted it
    nHitCalls,         \* history: get calls on a present, non-expired key
    nMissCalls,        \* history: get calls on an absent or expired key
    lastPut,           \* history: per stored key, time and ttl of the last put
                       \* to it and the hits on it since
    lock,              \* self._lock: the thread that holds it, 0 when free
    pc,                \* per thread: where it is in its call
    req,               \* per thread: the call it is making
    loc                \* per thread: what its call has computed so far

cvars == <<max_size, strategy, data, access_order, insertion_order, stats>>
hvars == <<touchSeq, insSeq, nHitCalls, nMissCalls, lastPut>>
tvars == <<lock, pc, req, loc>>
vars  == <<max_size, strategy, data, access_order, insertion_order, stats,
           now, call, ret, nops, touchSeq, insSeq, nHitCalls, nMissCalls,
           lastPut, lock, pc, req, loc>>

Cache ==
    [max_size |-> max_size, strategy |-> strategy, data |-> data,
     access_order |-> access_order, insertion_order |-> insertion_order,
     stats |-> stats]

Install(c) ==
    /\ data' = c.data
    /\ access_order' = c.access_order
    /\ insertion_order' = c.insertion_order
    /\ stats' = c.stats
    /\ UNCHANGED <<max_size, strategy>>

Call(op, key, value, ttl) == [op |-> op, key |-> key, value |-> value, ttl |-> ttl]

\* history is kept only for keys that are still stored, and only under the
\* policy it is about (touches under LRU, insertions under FIFO)
Kept(h, d, on) == [k \in StrKeys |-> IF on /\ k \in KeySet(d) THEN h[k] ELSE 0]
ForgetT(h, d)  == Kept(h, d, strategy = "lru")
ForgetI(h, d)  == Kept(h, d, strategy = "fifo")

\* what is remembered of the last put to a key: when it was made, with which
\* ttl, and how many get calls have hit the key since; nothing for a key that
\* is not stored
NoPut == [at |-> 0, ttl |-> TtlNone, hits |-> 0]
PutAt(t, ttl) == [at |-> t, ttl |-> ttl, hits |-> 0]
Stored(h, d) == [k \in StrKeys |-> IF k \in KeySet(d) THEN h[k] ELSE NoPut]

Threads == 1..NThreads
NoCall  == Call("none", "", 0, TtlNone)
NoLoc   == [c |-> NewCache(1, "lru"), ret |-> RetNone]

InitThreads ==
    /\ lock = 0
    /\ pc = [t \in Threads |-> "idle"]
    /\ req = [t \in Threads |-> NoCall]
    /\ loc = [t \in Threads |-> NoLoc]

Init ==
    /\ InitThreads
    /\ max_size \in 1..MaxCap
    /\ strategy \in Strategies
    /\ data = <<>>
    /\ access_order = <<>>
    /\ insertion_order = <<>>
    /\ stats = NewCache(1, "lru").stats
    /\ now = 0
    /\ call = Call("init", "", 0, TtlNone)
    /\ ret = RetNone
    /\ nops = 0
    /\ touchSeq = [k \in StrKeys |-> 0]
    /\ insSeq = [k \in StrKeys |-> 0]
    /\ nHitCalls = 0
    /\ nMissCalls = 0
    /\ lastPut = [k \in StrKeys |-> NoPut]

Live(key) == DictHas(data, key) /\ ~is_expired(DictGet(data, key), now)

\* every call is counted, and MaxOps bounds their number
Count ==
    /\ nops < MaxOps
    /\ nops' = nops + 1
    /\ UNCHANGED tvars

Get(key) ==
    /\ Count
    /\ LET r == get(Cache, key, now)
       IN /\ Install(r.c)
          /\ ret' = r.ret
          /\ touchSeq' = ForgetT(IF hashable(key) /\ Live(key)
                                THEN [touchSeq EXCEPT ![key] = nops + 1]
                                ELSE touchSeq, r.c.data)
          /\ insSeq' = ForgetI(insSeq, r.c.data)
    /\ nHitCalls' = IF hashable(key) /\ Live(key) THEN nHitCalls + 1 ELSE nHitCalls
    /\ nMissCalls' = IF hashable(key) /\ ~Live(key) THEN nMissCalls + 1 ELSE nMissCalls
    /\ lastPut' = Stored(IF hashable(key) /\ Live(key)
                         THEN [lastPut EXCEPT ![key].hits = @ + 1]
                         ELSE lastPut, data')
    /\ call' = Call("get", key, 0, TtlNone)
    /\ UNCHANGED now

Put(key, value, ttl) ==
    LET r  == put(Cache, key, value, ttl, now)
        ok == put_validate(key, ttl) = RetNone
    IN /\ Count
       /\ Install(r.c)
       /\ ret' = r.ret
       /\ touchSeq' = ForgetT(IF ok THEN [touchSeq EXCEPT ![key] = nops + 1]
                             ELSE touchSeq, r.c.data)
       /\ insSeq' = ForgetI(IF ok /\ ~DictHas(data, key)
                           THEN [insSeq EXCEPT ![key] = nops + 1]
                           ELSE insSeq, r.c.data)
       /\ lastPut' = Stored(IF ok THEN [lastPut EXCEPT ![key] = PutAt(now, ttl)]
                            ELSE lastPut, r.c.data)
       /\ call' = Call("put", key, value, ttl)
       /\ UNCHANGED <<now, nHitCalls, nMissCalls>>

\* delete, clear, cleanup_expired, size, keys, stats
Other(op, key, r) ==
    /\ Count
    /\ Install(r.c)
    /\ ret' = r.ret
    /\ touchSeq' = ForgetT(touchSeq, r.c.data)
    /\ insSeq' = ForgetI(insSeq, r.c.data)
    /\ lastPut' = Stored(lastPut, r.c.data)
    /\ call' = Call(op, key, 0, TtlNone)
    /\ UNCHANGED <<now, nHitCalls, nMissCalls>>

Delete(key)    == Other("delete", key, delete(Cache, key))
Clear          == Other("clear", "", clear(Cache))
CleanupExpired == Other("cleanup_expired", "", cleanup_expired(Cache, now))
Size           == Other("size", "", size(Cache))
Keys           == Other("keys", "", keys(Cache))
Stats          == Other("stats", "", stats_(Cache))

\* the clock advances between calls
Tick ==
    /\ now < MaxTime
    /\ now' = now + 1
    /\ call' = Call("tick", "", 0, TtlNone)
    /\ UNCHANGED <<cvars, hvars, ret, nops, tvars>>

\* arguments of put: every key with and without a ttl, a second value for one
\* key (the cache never looks into a value), and rejected ones of each kind
PutArgs ==
    (StrKeys \X {1} \X GoodTtls)
    \cup ({"a"} \X {2} \X GoodTtls)
    \cup ({"int:5"} \X {1} \X {TtlNone})
    \cup ({"a"} \X {2} \X BadTtls)

Next ==
    \/ \E key \in AllKeys : Get(key)
    \/ \E a \in PutArgs : Put(a[1], a[2], a[3])
    \/ \E key \in AllKeys : Delete(key)
    \/ Clear
    \/ CleanupExpired
    \/ Size
    \/ Keys
    \/ Stats
    \/ Tick

Spec == Init /\ [][Next]_vars

\* ------------------------------------------------------------ threads
\* Several threads call the same cache.  A call runs in steps: the thread
\* enters the method (validation included, which runs before the lock is
\* taken), acquires self._lock, reads the shared mapping, policy and counters
\* and computes, then writes them back and leaves the `with` block, which
\* releases the lock, also when the body raised.

\* threading.RLock: free, or already held by the caller
can_acquire_unguarded(owner, t) == TRUE

can_acquire(owner, t) == owner = 0 \/ owner = t

\* the body of the method under `with self._lock`
locked_body(c, rq, t) ==
    CASE rq.op = "get"    -> get(c, rq.key, t)
      [] rq.op = "put"    -> [c |-> put_locked(c, rq.key, rq.value, rq.ttl, t),
                              ret |-> RetNone]
      [] rq.op = "delete" -> delete(c, rq.key)
      [] rq.op = "clear"  -> clear(c)
      [] rq.op = "cleanup_expired" -> cleanup_expired(c, t)
      [] rq.op = "size"   -> size(c)
      [] rq.op = "keys"   -> keys(c)
      [] rq.op = "stats"  -> stats_(c)

\* the same call made with no other thread around
sequential(c, rq, t) ==
    CASE rq.op = "put" -> put(c, rq.key, rq.value, rq.ttl, t)
      [] OTHER         -> locked_body(c, rq, t)

\* what the checks made before the lock raise, RetNone when they pass
precheck(rq) ==
    CASE rq.op = "put"    -> put_validate(rq.key, rq.ttl)
      [] rq.op = "delete" -> IF isinstance_str(rq.key) THEN RetNone ELSE RetTypeError
      [] OTHER            -> RetNone

CKeys  == {"a", "list:[]"}
CCalls ==
    {Call("get", k, 0, TtlNone) : k \in CKeys}
    \cup {Call("put", a[1], a[2], a[3]) :
             a \in {<<"", 1, TtlNone>>, <<"a", 1, TtlNone>>, <<"a", 2, Ttl(1)>>,
                    <<"a", 1, Ttl(0)>>}}
    \cup {Call("delete", k, 0, TtlNone) : k \in CKeys}
    \cup {Call(op, "", 0, TtlNone) :
             op \in {"clear", "cleanup_expired", "size", "keys", "stats"}}

\* thread t calls a method whose checks pass: it now waits for the lock
Enter(t, rq) ==
    /\ pc[t] = "idle"
    /\ nops < MaxCalls
    /\ precheck(rq) = RetNone
    /\ nops' = nops + 1
    /\ pc' = [pc EXCEPT ![t] = "waiting"]
    /\ req' = [req EXCEPT ![t] = rq]
    /\ UNCHANGED <<cvars, hvars, now, call, ret, lock, loc>>

\* thread t calls put or delete with arguments that are rejected: the call
\* raises without touching the lock
Reject(t, rq) ==
    /\ pc[t] = "idle"
    /\ nops < MaxCalls
    /\ precheck(rq) # RetNone
    /\ nops' = nops + 1
    /\ call' = rq
    /\ ret' = precheck(rq)
    /\ UNCHANGED <<cvars, hvars, now, tvars>>

\* with self._lock: __enter__
Acquire(t) ==
    /\ pc[t] = "waiting"
    /\ can_acquire(lock, t)
    /\ lock' = t
    /\ pc' = [pc EXCEPT ![t] = "locked"]
    /\ UNCHANGED <<cvars, hvars, now, call, ret, nops, req, loc>>

\* the body reads the shared state and computes
Compute(t) ==
    /\ pc[t] = "locked"
    /\ loc' = [loc EXCEPT ![t] = locked_body(Cache, req[t], now)]
    /\ pc' = [pc EXCEPT ![t] = "computed"]
    /\ UNCHANGED <<cvars, hvars, now, call, ret, nops, lock, req>>

\* a lock that is never given back
release_never(owner, t) == owner

\* with self._lock: __exit__, by the thread that holds it
release(owner, t) == IF owner = t THEN 0 ELSE owner

\* the body writes the shared state; __exit__ releases the lock; the call
\* returns or raises
Commit(t) ==
    /\ pc[t] = "computed"
    /\ Install(loc[t].c)
    /\ call' = req[t]
    /\ ret' = loc[t].ret
    /\ req' = [req EXCEPT ![t] = NoCall]
    /\ loc' = [loc EXCEPT ![t] = NoLoc]
    /\ lock' = release(lock, t)
    /\ pc' = [pc EXCEPT ![t] = "idle"]
    /\ UNCHANGED <<hvars, now, nops>>

\* the clock advances, but not between the two halves of a method body
CTick ==
    /\ now < MaxTime
    /\ \A t \in Threads : pc[t] # "computed"
    /\ now' = now + 1
    /\ UNCHANGED <<cvars, hvars, call, ret, nops, tvars>>

NextC ==
    \/ \E t \in Threads, rq \in CCalls : Enter(t, rq)
    \/ \E t \in Threads, rq \in CCalls : Reject(t, rq)
    \/ \E t \in Threads : Acquire(t)
    \/ \E t \in Threads : Compute(t)
    \/ \E t \in Threads : Commit(t)
    \/ CTick

SpecC == Init /\ [][NextC]_vars

\* fair scheduling: a thread that can run its method body does run it, and a
\* thread waiting for a lock that is free again and again does get it
Fairness ==
    \A t \in Threads :
        /\ SF_vars(Acquire(t))
        /\ WF_vars(Compute(t))
        /\ WF_vars(Commit(t))

SpecCFair == SpecC /\ Fairness

\* ------------------------------------------------------------------ types
TypeOK ==
    /\ max_size \in 1..MaxCap
    /\ strategy \in Strategies
    /\ KeySet(data) \subseteq StrKeys
    /\ Cardinality(KeySet(data)) = Len(data)
    /\ nops \in 0..MaxOps
    /\ now \in 0..MaxTime

\* ================================================================== claims
\* the step just taken is the call `op`
Did(op) == call'.op = op

\* put of a key that is not stored, accepted, made with the mapping at max_size
PutNewAtCapacity ==
    /\ Did("put")
    /\ put_validate(call'.key, call'.ttl) = RetNone
    /\ ~DictHas(data, call'.key)
    /\ Len(data) = max_size

\* the keys a step takes out of the mapping
Removed == KeySet(data) \ KeySet(data')

\* ------------------------------------------------------------------ C1
\* C1: after every operation the number of entries in the mapping is at most
\* max_size, for every strategy and every string key, "" included.
CapacityInvariant == Len(data) <= max_size

\* ------------------------------------------------------------------ C2
\* the stored key whose last touch (insert, overwrite, successful get) is oldest
LeastRecentlyTouched ==
    CHOOSE k \in KeySet(data) : \A j \in KeySet(data) : touchSeq[k] <= touchSeq[j]

\* C2: under LRU a put of a new key at max_size removes the least recently
\* touched key, and only it.
LRUEvictionOrder ==
    [][(strategy = "lru" /\ PutNewAtCapacity)
        => Removed = {LeastRecentlyTouched}]_vars

\* whatever an LRU put removes is the least recently touched key
LRUEvictsOnlyOldest ==
    [][(strategy = "lru" /\ PutNewAtCapacity)
        => Removed \subseteq {LeastRecentlyTouched}]_vars

\* ------------------------------------------------------------------ C3
\* the stored key whose insertion as a new key is the earliest
EarliestInserted ==
    CHOOSE k \in KeySet(data) : \A j \in KeySet(data) : insSeq[k] <= insSeq[j]

\* C3: under FIFO a put of a new key at max_size removes the key inserted
\* earliest, and only it; gets and overwrites do not change insSeq.
FIFOEvictionOrder ==
    [][(strategy = "fifo" /\ PutNewAtCapacity)
        => Removed = {EarliestInserted}]_vars

FIFOEvictsOnlyEarliest ==
    [][(strategy = "fifo" /\ PutNewAtCapacity)
        => Removed \subseteq {EarliestInserted}]_vars

\* ------------------------------------------------------------------ C4
MinCount == CHOOSE n \in {data[i].access_count : i \in 1..Len(data)} :
                \A i \in 1..Len(data) : n <= data[i].access_count

\* the first key, in the mapping's iteration order, among those at the minimum
FirstLeastFrequent ==
    data[CHOOSE i \in 1..Len(data) :
             /\ data[i].access_count = MinCount
             /\ \A j \in 1..Len(data) : data[j].access_count = MinCount => i <= j].key

\* C4: under LFU a put of a new key at max_size removes a key of minimum
\* access_count, the first such key in the mapping's iteration order.
LFUEvictionOrder ==
    [][(strategy = "lfu" /\ PutNewAtCapacity)
        => Removed = {FirstLeastFrequent}]_vars

LFUEvictsOnlyLeastFrequent ==
    [][(strategy = "lfu" /\ PutNewAtCapacity)
        => Removed \subseteq {FirstLeastFrequent}]_vars

\* ------------------------------------------------------------------ C5
\* C5: get of a stored, non-expired key returns its value; get of a stored,
\* expired key returns None, removes the key from the mapping and from the
\* policy's ordering, adds 1 to expired and 1 to misses and leaves hits; get of
\* a key that is not stored (as after that removal) adds 1 to misses only.
LazyExpiryOnGet ==
    [][\A k \in StrKeys : (Did("get") /\ call'.key = k) =>
          IF DictHas(data, k) /\ ~is_expired(DictGet(data, k), now)
          THEN ret' = RetVal(DictGet(data, k).value)
          ELSE IF DictHas(data, k)
          THEN /\ ret' = RetNone
               /\ data' = DictDel(data, k)
               /\ k \notin Range(access_order') \cup Range(insertion_order')
               /\ stats' = [stats EXCEPT !.expired = @ + 1, !.misses = @ + 1]
          ELSE /\ ret' = RetNone
               /\ data' = data
               /\ stats' = [stats EXCEPT !.misses = @ + 1]]_vars

\* an entry with a ttl was read once in time and, after its ttl, read again
\* and purged
LazyExpiryWitness ==
    /\ call.op = "get"
    /\ ret = RetNone
    /\ stats = [hits |-> 1, misses |-> 1, evictions |-> 0, expired |-> 1]
    /\ ~DictHas(data, call.key)
    /\ nops = 3

\* ------------------------------------------------------------------ C6
InLock(t) == pc[t] \in {"locked", "computed"}

\* C6: at most one thread is inside the lock, and it is the holder; and the
\* write-back of every call leaves the mapping, the policy's ordering and the
\* counters, and returns the value, that the same call gives when run alone on
\* the state it finds: the calls take effect one at a time, in the order of
\* their write-backs.
Linearizable ==
    /\ [](\A t, u \in Threads : (InLock(t) /\ InLock(u)) => (t = u /\ lock = t))
    /\ [][\A t \in Threads :
             (pc[t] = "computed" /\ pc'[t] = "idle") =>
                 /\ Cache' = sequential(Cache, req[t], now).c
                 /\ call' = req[t]
                 /\ ret' = sequential(Cache, req[t], now).ret]_vars

\* one thread has put a key while another, which had called get of it and
\* was waiting for the lock, then read the value
LinearizableWitness ==
    /\ call = Call("get", "a", 0, TtlNone)
    /\ ret = RetVal(2)
    /\ stats.hits = 1
    /\ nops = 2
    /\ \A t \in Threads : pc[t] = "idle"

Overwrite ==
    /\ Did("put")
    /\ put_validate(call'.key, call'.ttl) = RetNone
    /\ DictHas(data, call'.key)

\* C8: put on a stored key (at max_size or not, expired or not) keeps the keys
\* and the size, evicts nothing, leaves every other entry and every counter,
\* and replaces the entry: value v2, access_count 0, created_at now; a get
\* right after returns v2.
OverwriteSemantics ==
    [][Overwrite =>
        LET k == call'.key
            e == DictGet(data', k)
        IN /\ DictKeys(data') = DictKeys(data)
           /\ Len(data') = Len(data)
           /\ stats' = stats
           /\ \A j \in KeySet(data) \ {k} : DictGet(data', j) = DictGet(data, j)
           /\ e.value = call'.value
           /\ e.ttl = call'.ttl
           /\ e.access_count = 0
           /\ e.created_at = now
           /\ get(Cache', k, now').ret = RetVal(call'.value)]_vars

\* with the mapping full, an entry inserted by an earlier call was overwritten
\* later on with another value
OverwriteWitness ==
    /\ strategy = "fifo"
    /\ call.op = "put"
    /\ ret = RetNone
    /\ insSeq[call.key] \in 1..(nops - 1)
    /\ Len(data) = max_size
    /\ max_size = 2
    /\ DictGet(data, call.key).value = 2
    /\ DictGet(data, call.key).created_at = 2
    /\ DictGet(data, call.key).access_count = 0
    /\ stats.evictions = 0

\* ------------------------------------------------------------------ C9
\* C9: a put whose key is not a str, or whose ttl is given and <= 0, raises
\* and leaves the mapping, the entries, the policy's ordering and the four
\* counters as they were.
RejectedPutChangesNothing ==
    [][(Did("put") /\ (~isinstance_str(call'.key)
                         \/ (call'.ttl.some /\ call'.ttl.v <= 0)))
        => /\ ret'.kind \in {"TypeError", "ValueError"}
           /\ UNCHANGED cvars]_vars

\* a put with ttl <= 0 was rejected by a cache that holds entries
RejectedPutWitness ==
    /\ call.op = "put"
    /\ call.key \in StrKeys
    /\ ret = RetValueError
    /\ Len(data) = 2

\* ------------------------------------------------------------------ C10
\* C10: get and delete never end in an error, whatever the key value.
GetDeleteTotal ==
    call.op \in {"get", "delete"} => ret.kind \notin {"TypeError", "ValueError"}

\* C10 as amended: get returns a value or None for every hashable key, str or
\* not, and raises TypeError for an unhashable one; delete returns a bool for
\* every str key and raises TypeError for every other key; a hashable key that
\* is not stored gives None / False.
GetDeleteResults ==
    [][/\ Did("get") =>
            /\ ret'.kind = IF ~hashable(call'.key) THEN "TypeError"
                           ELSE IF Live(call'.key) THEN "value" ELSE "None"
            /\ ~hashable(call'.key) => UNCHANGED cvars
       /\ Did("delete") =>
            /\ ret' = IF ~isinstance_str(call'.key) THEN RetTypeError
                      ELSE RetBool(DictHas(data, call'.key))
            /\ ~isinstance_str(call'.key) => UNCHANGED cvars]_vars

\* delete of a key that is not a str raised TypeError
GetDeleteWitness ==
    /\ call.op = "delete"
    /\ call.key = "int:5"
    /\ ret = RetTypeError
    /\ Len(data) > 0

\* ------------------------------------------------------------------ C11
\* C11: delete(k) of a str key returns True iff k was stored; when True it
\* takes k, and only k, out of the mapping and out of the policy's ordering,
\* the other entries, their order and all counters staying as they were; when
\* False nothing changes; k is not stored afterwards, so that a second
\* delete(k) returns False.
DeleteResultAndFrame ==
    [][\A k \in StrKeys : (Did("delete") /\ call'.key = k) =>
          /\ ret' = RetBool(DictHas(data, k))
          /\ data' = SelectSeq(data, LAMBDA it : it.key # k)
          /\ access_order' = SelectSeq(access_order, LAMBDA x : x # k)
          /\ insertion_order' = SelectSeq(insertion_order, LAMBDA x : x # k)
          /\ stats' = stats
          /\ ~DictHas(data, k) => UNCHANGED cvars
          /\ delete(Cache', k).ret = RetBool(FALSE)]_vars

\* a stored key was deleted and another entry stays
DeleteWitness ==
    /\ call.op = "delete"
    /\ ret = RetBool(TRUE)
    /\ Len(data) = 1
    /\ ~DictHas(data, call.key)
    /\ strategy = "lru"
    /\ Len(access_order) = 1

\* ------------------------------------------------------------------ C12
CounterNames == {"hits", "misses", "evictions", "expired"}

\* C12: a clear() step leaves size() at 0 and the policy's orderings empty,
\* makes get of every key stored before it return None, keeps the hits,
\* misses, evictions and expired counters at their values, and a second
\* clear() changes nothing more; no step of any operation decreases a counter.
ClearEmptiesKeepsStats ==
    [][/\ Did("clear") =>
             /\ size(Cache').ret = RetInt(0)
             /\ access_order' = <<>> /\ insertion_order' = <<>>
             /\ \A k \in KeySet(data) : get(Cache', k, now').ret = RetNone
             /\ stats' = stats
             /\ clear(Cache').c = Cache'
       /\ \A n \in CounterNames : stats'[n] >= stats[n]]_vars

\* a cache that had served a hit was cleared
ClearWitness ==
    /\ call.op = "clear"
    /\ data = <<>>
    /\ stats.hits = 1
    /\ stats.misses = 0

\* ------------------------------------------------------------------ C13
ExpiredNow == {k \in KeySet(data) : is_expired(DictGet(data, k), now)}

\* C13: a cleanup_expired() step removes from the mapping and from the
\* policy's orderings exactly the entries expired at the time of the call,
\* returns their number, adds that number to the expired counter, and leaves
\* hits, misses, evictions and the order of the surviving entries unchanged.
CleanupRemovesExpiredSet ==
    [][Did("cleanup_expired") =>
          /\ data' = SelectSeq(data, LAMBDA it : it.key \notin ExpiredNow)
          /\ access_order' = SelectSeq(access_order, LAMBDA x : x \notin ExpiredNow)
          /\ insertion_order' =
                 SelectSeq(insertion_order, LAMBDA x : x \notin ExpiredNow)
          /\ ret' = RetInt(Cardinality(ExpiredNow))
          /\ stats' = [stats EXCEPT !.expired = @ + Cardinality(ExpiredNow)]]_vars

\* a sweep removed one expired entry and kept a live one
CleanupWitness ==
    /\ call.op = "cleanup_expired"
    /\ ret = RetInt(1)
    /\ Len(data) = 1
    /\ stats.expired = 1
    /\ strategy = "fifo"
    /\ Len(insertion_order) = 1

\* ------------------------------------------------------------------ C14
\* C14: a put of a key that is not stored, made with max_size entries stored,
\* removes exactly one stored entry, adds exactly 1 to the evictions counter
\* and ends with the new key stored with the given value and size() equal to
\* max_size, for every strategy and every str key ("" included); no other
\* step changes the evictions counter.
OneEvictionPerOverflow ==
    [][IF PutNewAtCapacity
       THEN /\ Cardinality(Removed) = 1
            /\ stats'.evictions = stats.evictions + 1
            /\ DictHas(data', call'.key)
            /\ DictGet(data', call'.key).value = call'.value
            /\ size(Cache').ret = RetInt(max_size)
       ELSE stats'.evictions = stats.evictions]_vars

\* what the code does keep of C14: the evictions counter moves only in a put
\* of a new key made at or above max_size, by the number of entries removed,
\* which is at most one, and the new key is stored with the given value
EvictionsCountRemovals ==
    [][/\ stats'.evictions = stats.evictions + Cardinality(Removed)
              \/ ~Did("put")
       /\ stats'.evictions # stats.evictions =>
              /\ Did("put")
              /\ ~DictHas(data, call'.key)
              /\ Len(data) >= max_size
              /\ Cardinality(Removed) = 1
              /\ DictHas(data', call'.key)
              /\ DictGet(data', call'.key).value = call'.value]_vars

\* ------------------------------------------------------------------ C15
Tracks(order) == Range(order) = KeySet(data) /\ Len(order) = Len(data)

\* C15: in every reachable state the keys held in the policy's ordering
\* structure (access_order for LRU, insertion_order for FIFO) are exactly the
\* keys of the mapping, each once: no orphaned policy key and no stored key
\* the policy does not track.
MappingPolicyLockstep ==
    /\ strategy = "lru" => Tracks(access_order)
    /\ strategy = "fifo" => Tracks(insertion_order)

\* the same statement, read in the states the interleaved threads reach
MappingPolicyLockstepThreads ==
    \A t \in Threads : pc[t] \in {"idle", "waiting", "locked", "computed"} =>
        MappingPolicyLockstep

\* an LRU cache that has evicted one entry and holds two
LockstepWitness ==
    /\ strategy = "lru"
    /\ stats.evictions = 1
    /\ Len(data) = 2
    /\ Len(access_order) = 2

\* ------------------------------------------------------------------ C16
\* C16: in every reachable state the access_count of every stored entry is
\* the number of get calls that found its key stored and not expired since
\* the last put to that key: a put (insert or overwrite) starts the count at
\* 0, and a get that misses or finds the entry expired adds to no count.
AccessCountAccounting ==
    \A i \in 1..Len(data) : data[i].access_count = lastPut[data[i].key].hits

\* an entry read twice since it was put
AccessCountWitness ==
    /\ call.op = "get"
    /\ DictHas(data, call.key)
    /\ DictGet(data, call.key).access_count = 2
    /\ stats.hits = 2

\* ------------------------------------------------------------------ C17
Times == 0..(MaxTime + 2)

\* C17: the instant at which a stored entry expires is fixed by the last put
\* to its key: put without ttl, it is expired at no time; put with ttl d at
\* time c, it is not expired at any time up to and including c + d and is
\* expired at every later time, however often it has been read since.
ExpiryFixedByLastPut ==
    \A i \in 1..Len(data) : \A t \in Times :
        LET p == lastPut[data[i].key]
        IN is_expired(data[i], t) <=> (p.ttl.some /\ t > p.at + p.ttl.v)

\* an entry read at the very instant its ttl ends, and still served
ExpiryBoundaryWitness ==
    /\ call.op = "get"
    /\ ret.kind = "value"
    /\ DictHas(data, call.key)
    /\ LET item == DictGet(data, call.key)
       IN /\ item.ttl.some
          /\ now = item.created_at + item.ttl.v
          /\ item.last_accessed = now
          /\ item.access_count = 1

\* ------------------------------------------------------------------ C18
\* C18: in every reachable state with a non-empty mapping, should_evict of
\* the active policy returns without raising, and the key it returns is
\* stored and is accepted by _evict_one as the key to remove; the fallback
\* branch of _evict_one is therefore never taken.
PolicyNamesAcceptedVictim ==
    data # <<>> =>
        /\ ~should_evict(Cache).raised
        /\ DictHas(data, should_evict(Cache).key)
        /\ accept_victim(Cache, should_evict(Cache).key)

\* what the code does keep of C18: the policy never raises on a non-empty
\* mapping and always names a stored key, so the fallback is never taken
PolicyNamesStoredVictim ==
    data # <<>> =>
        /\ ~should_evict(Cache).raised
        /\ DictHas(data, should_evict(Cache).key)

\* ------------------------------------------------------------------ C19
\* C19: an expired entry leaves the mapping only through a get on its key or
\* through cleanup_expired: no put changes the expired counter; a put of a
\* new key at max_size removes the policy's victim and nothing else, counted
\* in evictions, whether or not another stored entry is already expired; any
\* other put removes nothing; size() and keys() count and list every stored
\* entry, the expired ones included.
ExpiredPurgedOnlyOnReadOrSweep ==
    [][/\ stats'.expired # stats.expired =>
              Did("get") \/ Did("cleanup_expired")
       /\ Did("put") =>
              IF PutNewAtCapacity
              THEN /\ Removed = {should_evict(Cache).key}
                   /\ stats'.evictions = stats.evictions + 1
              ELSE Removed = {}
       /\ Did("size") => ret' = RetInt(Len(data))
       /\ Did("keys") => ret' = RetList(DictKeys(data))]_vars

\* what the code does keep of C19: put never touches the expired counter and
\* removes nothing but the policy's victim, which it counts in evictions;
\* size() and keys() report every stored entry, expired or not
PutIgnoresExpiry ==
    [][/\ stats'.expired # stats.expired =>
              Did("get") \/ Did("cleanup_expired")
       /\ Did("put") =>
              /\ \A k \in Removed : k = should_evict(Cache).key
              /\ stats'.evictions = stats.evictions + Cardinality(Removed)
       /\ Did("size") => ret' = RetInt(Len(data))
       /\ Did("keys") => ret' = RetList(DictKeys(data))]_vars

\* a put at max_size has evicted the policy's live victim and left an entry
\* that was already expired in the mapping
ExpiredSurvivesEviction ==
    /\ call.op = "put"
    /\ stats.evictions = 1
    /\ stats.expired = 0
    /\ \E i \in 1..Len(data) : is_expired(data[i], now) /\ data[i].key # call.key

\* ------------------------------------------------------------------ C20
InProgress(t) == pc[t] # "idle"
Step(t) == Acquire(t) \/ Compute(t) \/ Commit(t)

\* C20: under fair scheduling every call a thread has started returns or
\* raises; the lock is free whenever no call is in progress, also after a
\* call rejected by validation; and in no reachable state with a call in
\* progress are all threads stuck.
EveryCallCompletes ==
    /\ \A t \in Threads : InProgress(t) ~> ~InProgress(t)
    /\ []((\A t \in Threads : ~InProgress(t)) => lock = 0)
    /\ []((\E t \in Threads : InProgress(t)) =>
              \E t \in Threads : ENABLED Step(t))

\* one thread is inside the lock while another waits for it
ContentionWitness ==
    \E t, u \in Threads :
        /\ pc[t] = "waiting"
        /\ pc[u] = "computed"
        /\ lock = u
        /\ req[t].op = "get"
        /\ req[u].op = "put"

====
